---- MODULE Spec2Model ----
(***************************************************************************)
(* Offline store and synchronisation engine of ReportsApp.                 *)
(*                                                                         *)
(* SyncService (src/src/services/syncService.ts) and the part of           *)
(* DatabaseService (src/src/contexts/AuthContext.tsx) it drives, with      *)
(* register / login / logout of AuthProvider (same file) and the auto-save *)
(* of FillReportScreen (src/unnamed/part_001) as its callers.              *)
(*                                                                         *)
(* Execution model.  The code is single-threaded JavaScript: a handler     *)
(* runs without interruption up to its next `await`.  Every awaited        *)
(* DatabaseService call ends in one SQLite statement (runAsync /           *)
(* getAllAsync) on the single connection `db`; statements are executed in  *)
(* the order they were submitted.  `dbq` holds the coroutines that wait    *)
(* for a statement, oldest first; a step of the model completes the        *)
(* oldest statement (its effect on the tables, or its result set) and      *)
(* runs the owner's continuation up to its next await.  The transport      *)
(* (makeHttpRequest) answers at any later time, with either outcome.       *)
(***************************************************************************)
EXTENDS Integers, Sequences, FiniteSets, TLC

\* ---------------------------------------------------------------- bounds
MaxSubs == 1
MaxEntries == 2
MaxUsers == 2
MaxDrafts == 2

\* ------------------------------------------------------------- constants
MaxAttempts == 3
CurrentUser == "current_user_id"
Users == {CurrentUser, "u1"}
Clients == {"c1"}
\* with "c2", an invocation that overlaps c1's on FillReportScreen (the
\* auto-save timer beside the Save Draft button)
Callers == Clients \cup {"c2"}
\* state.user.id on FillReportScreen
FillUser == "u1"
Passes == {"p1", "p2"}
Reports == {"r1"}
\* the presses of the register and login buttons, and the addresses typed
AuthCallers == {"a1", "a2"}
Emails == {"ana@x", "bia@x"}
\* the status a caller can pass ('draft' | 'submitted'), and the column's CHECK
Statuses == {"draft", "submitted"}
AllStatuses == Statuses \cup {"approved", "rejected"}

VARIABLES
    isOnline,            \* SyncService.isOnline
    syncInProgress,      \* SyncService.syncInProgress
    syncInterval,        \* SyncService.syncInterval # null
    db,                  \* DatabaseService.db # null
    platform,            \* Platform.OS: "native" (ios / android) or "web"
    reports,             \* table reports: the ids of the stored report definitions
    del,                 \* the deleteReport call of CreateReportScreen: its frame
    report_submissions,  \* table report_submissions: id -> row, for the stored ids;
                         \* of a row, the columns report_id, user_id, data,
                         \* status, version, is_offline, sync_status
    sync_queue,          \* table sync_queue, rows in insertion (created_at) order
    nextSub,             \* next id generateId() hands to createSubmission
    nextEntry,           \* next id generateId() hands to addToSyncQueue
    pass,                \* the startSync invocations: pass slot -> frame
    pc,                  \* the callers: client -> frame of its running call
    result,              \* client -> outcome of its last call
    dbq,                 \* coroutines waiting for their SQLite statement, oldest first
    hist,                \* per stored queue entry: its transport calls so far (history)
    users,               \* table users, rows in insertion order: id and email
    nextUser,            \* next id generateId() hands to createUser
    auth,                \* AuthProvider's reducer state: the signed-in user
    reg,                 \* the register / login calls: caller -> frame
    screen,              \* FillReportScreen: its load, and its `submission` state
    fill                 \* the autoSave invocations: caller -> frame

\* what the authentication screens own
authVars == <<users, nextUser, auth, reg>>

\* what FillReportScreen owns
fillVars == <<screen, fill>>

vars == <<isOnline, syncInProgress, syncInterval, db, platform, reports, del,
          report_submissions,
          sync_queue, nextSub, nextEntry, pass, pc, result, dbq, hist,
          authVars, fillVars>>

SubIds == 1..MaxSubs
EntryIds == 1..MaxEntries

\* ------------------------------------------------------------- helpers

RECURSIVE RemoveEntry(_, _)
RemoveEntry(q, id) ==
    IF q = <<>> THEN <<>>
    ELSE IF Head(q).id = id THEN RemoveEntry(Tail(q), id)
    ELSE <<Head(q)>> \o RemoveEntry(Tail(q), id)

IdlePass == [pc |-> "idle", pendingItems |-> <<>>, i |-> 0, error |-> "none",
             pendingSubmissions |-> {}, read |-> <<>>, submission |-> 0,
             allOk |-> TRUE]
IdleCall == [op |-> "idle", at |-> "idle", id |-> 0, entry |-> 0,
             userId |-> "none", reportId |-> "none", status |-> "none",
             isOffline |-> FALSE, awaits |-> "none", failedItems |-> <<>>]
\* what a call gave its caller: the call, "ok" or the message of the Error it
\* threw, the id or the statistics it returned, and whether it started a pass
NoResult == [op |-> "none", value |-> "none", id |-> 0, started |-> FALSE,
             pendingItems |-> 0, failedItems |-> 0]
Pending(op) == [NoResult EXCEPT !.op = op]
Returned(op, id, started) ==
    [NoResult EXCEPT !.op = op, !.value = "ok", !.id = id, !.started = started]
Threw(op, message) == [NoResult EXCEPT !.op = op, !.value = message]
NoHist == [fails |-> 0, last |-> "none"]
NoDelete == [at |-> "idle", id |-> "none"]
\* initialState of authReducer (AuthContext.tsx lines 22-27)
initialState == [isAuthenticated |-> FALSE, user |-> "none"]
\* FillReportScreen before loadReportAndSubmission: useState(null) (line 36)
ClosedScreen == [at |-> "closed", submission |-> 0]
\* an autoSave invocation: the call it awaits, and the id its save returned
IdleFill == [at |-> "idle", id |-> 0]
\* a register / login call: where it waits, its argument, the id createUser
\* drew, whether the address was stored when it was called, and how it ended
IdleAuth == [op |-> "idle", at |-> "idle", email |-> "none", id |-> 0,
             existed |-> FALSE, out |-> "none"]

\* ------------------------------------------------------ DatabaseService
\* variant: the cap compared with <=
IsAttemptable_Inclusive(item) == item.attempts <= MaxAttempts

\* WHERE attempts < 3
IsAttemptable(item) == item.attempts < MaxAttempts

\* ORDER BY created_at ASC, as an insertion sort of the rows in table order;
\* rows with equal stamps stay in table order
RECURSIVE InsertByCreatedAt(_, _)
InsertByCreatedAt(item, sorted) ==
    IF sorted = <<>> THEN <<item>>
    ELSE IF Head(sorted).createdAt <= item.createdAt
    THEN <<Head(sorted)>> \o InsertByCreatedAt(item, Tail(sorted))
    ELSE <<item>> \o sorted

\* variant: ORDER BY created_at DESC
RECURSIVE OrderByCreatedAt_Descending(_)
OrderByCreatedAt_Descending(q) ==
    IF q = <<>> THEN <<>>
    ELSE OrderByCreatedAt_Descending(Tail(q)) \o <<Head(q)>>

RECURSIVE OrderByCreatedAt(_)
OrderByCreatedAt(q) ==
    IF q = <<>> THEN <<>>
    ELSE InsertByCreatedAt(q[Len(q)], OrderByCreatedAt(SubSeq(q, 1, Len(q) - 1)))

\* SELECT * FROM sync_queue WHERE attempts < 3 ORDER BY created_at ASC
GetPendingSyncItems == OrderByCreatedAt(SelectSeq(sync_queue, IsAttemptable))

\* SELECT * FROM report_submissions WHERE user_id = ?  (as a set of ids)
GetSubmissionsByUserId(userId) ==
    {s \in DOMAIN report_submissions : report_submissions[s].userId = userId}

\* variant: the enqueue itself counted as an attempt
AddToSyncQueue_CountingEnqueue(q, id, action, entityId) ==
    Append(q, [id |-> id, type |-> "submission", action |-> action,
               entityId |-> entityId, attempts |-> 1, lastAttempt |-> "none",
               error |-> "none", createdAt |-> id])

\* SyncService.addToSyncQueue lines 193-200 with DatabaseService.addToSyncQueue:
\* INSERT INTO sync_queue (...), attempts: 0, last_attempt and error null.
\* created_at is the clock read at line 810, in the turn that draws the id
\* (line 809); the clock does not run backwards and successive calls read
\* successive stamps, so the stamp is the call's ordinal, as is the id.
AddToSyncQueue(q, id, action, entityId) ==
    Append(q, [id |-> id, type |-> "submission", action |-> action,
               entityId |-> entityId, attempts |-> 0, lastAttempt |-> "none",
               error |-> "none", createdAt |-> id])

\* variant: the UPDATE without its WHERE clause
UpdateSyncQueueItem_EveryRow(q, id, attempts, error) ==
    [k \in 1..Len(q) |->
        [q[k] EXCEPT !.attempts = attempts, !.lastAttempt = "now",
                     !.error = error]]

\* UPDATE sync_queue SET attempts = ?, last_attempt = ?, error = ? WHERE id = ?
UpdateSyncQueueItem(q, id, attempts, error) ==
    [k \in 1..Len(q) |->
        IF q[k].id = id
        THEN [q[k] EXCEPT !.attempts = attempts, !.lastAttempt = "now",
                          !.error = error]
        ELSE q[k]]

\* DELETE FROM sync_queue WHERE id = ?
RemoveSyncQueueItem(q, id) == RemoveEntry(q, id)

\* the columns updateSubmission writes when they are supplied (lines 732-750)
Updatable == {"data", "status", "submittedAt", "syncStatus"}

\* variant: the UPDATE also counts the version up
UpdateSubmission_CountingVersion(t, id, data) ==
    [s \in DOMAIN t |->
        IF s = id
        THEN [f \in DOMAIN t[s] |->
                IF f \in DOMAIN data \cap Updatable THEN data[f]
                ELSE IF f = "version" THEN t[s][f] + 1
                ELSE t[s][f]]
        ELSE t[s]]

\* updateSubmission(id, data): the supplied columns are set, the others kept;
\* UPDATE report_submissions SET ..., last_modified = ? WHERE id = ?
UpdateSubmission(t, id, data) ==
    [s \in DOMAIN t |->
        IF s = id
        THEN [f \in DOMAIN t[s] |->
                IF f \in DOMAIN data \cap Updatable THEN data[f] ELSE t[s][f]]
        ELSE t[s]]


\* ------------------------------------------------------------ Init
\* The connection is closed and the service flags have their field
\* initialisers.  reports.db is durable: it is empty on a fresh install, or
\* holds what an earlier run left behind (here: one draft saved offline and
\* its create entry, not yet sent).
PersistedSubmission(userId) ==
    [reportId |-> "r1", userId |-> userId, data |-> 1, status |-> "draft",
     version |-> 1, isOffline |-> TRUE, syncStatus |-> "pending"]

Init ==
    /\ isOnline = FALSE
    /\ syncInProgress = FALSE
    /\ syncInterval = FALSE
    /\ db = FALSE
    /\ platform \in {"native", "web"}
    /\ del = NoDelete
    /\ \/ /\ reports = IF platform = "web" THEN {} ELSE Reports
          /\ report_submissions = <<>>
          /\ sync_queue = <<>>
          /\ nextSub = 1
          /\ nextEntry = 1
       \/ /\ platform = "native"
          /\ reports = Reports
          /\ \E u \in Users : report_submissions = <<PersistedSubmission(u)>>
          /\ sync_queue = AddToSyncQueue(<<>>, 1, "create", 1)
          /\ nextSub = 2
          /\ nextEntry = 2
    /\ pass = [p \in Passes |-> IdlePass]
    /\ pc = [c \in Callers |-> IdleCall]
    /\ result = [c \in Callers |-> NoResult]
    /\ screen = ClosedScreen
    /\ fill = [c \in Callers |-> IdleFill]
    /\ dbq = <<>>
    /\ hist = [e \in EntryIds |-> NoHist]
    /\ users = <<>>
    /\ nextUser = 1
    /\ auth = initialState
    /\ reg = [a \in AuthCallers |-> IdleAuth]

\* ------------------------------------------------------------ SyncService
\* variant: the guard without its syncInProgress test
CanStartSync_IgnoringProgress(online, busy) == online

\* startSync, lines 32-34: the guard, negated
CanStartSync(online, busy) == online /\ ~busy

FreePasses == {p \in Passes : pass[p].pc = "idle"}
NewPass == CHOOSE p \in FreePasses : TRUE

\* startSync up to its first await (line 76, inside processSyncQueue), called
\* with the handler's current view of isOnline and of the statement queue.
StartsPass(online) ==
    CanStartSync(online, syncInProgress) /\ db /\ FreePasses # {}

StartSync(online, q) ==
    IF ~CanStartSync(online, syncInProgress)
    THEN /\ dbq' = q
         /\ UNCHANGED <<syncInProgress, pass>>
    ELSE IF ~db
    THEN \* lines 37, 41-44, 54: flag raised and lowered in the same turn
         /\ syncInProgress' = FALSE
         /\ dbq' = q
         /\ UNCHANGED pass
    ELSE IF FreePasses = {}
    THEN /\ dbq' = q
         /\ UNCHANGED <<syncInProgress, pass>>
    ELSE /\ syncInProgress' = TRUE
         /\ pass' = [pass EXCEPT ![NewPass] =
                        [IdlePass EXCEPT !.pc = "getPendingSyncItems"]]
         /\ dbq' = Append(q, NewPass)

\* clients blocked in `await this.startSync()` of pass p resume with its end
Resumed(p) == {c \in Callers : pc[c].awaits = p}

\* variant: no finally block, syncInProgress stays raised
FinishSync_KeepingFlag(p, q) ==
    /\ syncInterval' = TRUE
    /\ syncInProgress' = syncInProgress
    /\ pass' = [pass EXCEPT ![p] = IdlePass]
    /\ dbq' = q
    /\ pc' = [c \in Callers |-> IF c \in Resumed(p) THEN IdleCall ELSE pc[c]]
    /\ result' = [c \in Callers |->
                    IF c \in Resumed(p) THEN Returned(pc[c].op, 0, TRUE)
                    ELSE result[c]]

\* lines 50 and 54: scheduleSyncInterval(), then the finally block
FinishSync(p, q) ==
    /\ syncInterval' = TRUE
    /\ syncInProgress' = FALSE
    /\ pass' = [pass EXCEPT ![p] = IdlePass]
    /\ dbq' = q
    /\ pc' = [c \in Callers |-> IF c \in Resumed(p) THEN IdleCall ELSE pc[c]]
    /\ result' = [c \in Callers |->
                    IF c \in Resumed(p) THEN Returned(pc[c].op, 0, TRUE)
                    ELSE result[c]]

\* initNetworkListener: the NetInfo callback
NetInfoEvent(isConnected) ==
    LET wasOffline == ~isOnline IN
    /\ isOnline' = isConnected
    /\ IF wasOffline /\ isConnected
       THEN StartSync(isConnected, dbq)
       ELSE UNCHANGED <<syncInProgress, pass, dbq>>
    /\ syncInterval' = IF ~isConnected THEN FALSE ELSE syncInterval
    /\ UNCHANGED <<db, report_submissions, sync_queue, nextSub, nextEntry,
                   pc, result, hist,
                   platform, reports, del>>
    /\ UNCHANGED authVars
    /\ UNCHANGED fillVars

\* scheduleSyncInterval: the setInterval callback, every 30 s while armed
TimerTick ==
    /\ syncInterval
    /\ IF isOnline /\ ~syncInProgress
       THEN StartSync(isOnline, dbq)
       ELSE UNCHANGED <<syncInProgress, pass, dbq>>
    /\ UNCHANGED <<isOnline, syncInterval, db, report_submissions, sync_queue,
                   nextSub, nextEntry, pc, result, hist,
                   platform, reports, del>>
    /\ UNCHANGED authVars
    /\ UNCHANGED fillVars

\* DatabaseService.init: on the web `this.db = null` (AuthContext.tsx
\* lines 246-251), otherwise db = openDatabaseAsync(...)
DatabaseInit ==
    /\ ~db
    /\ db' = (platform # "web")
    /\ UNCHANGED <<platform, reports, del>>
    /\ UNCHANGED <<isOnline, syncInProgress, syncInterval, report_submissions,
                   sync_queue, nextSub, nextEntry, pass, pc, result, dbq, hist>>
    /\ UNCHANGED authVars
    /\ UNCHANGED fillVars

Owns(x) == dbq # <<>> /\ Head(dbq) = x

\* syncPendingSubmissions line 153 issued: processSyncQueue has ended
EnterSubmissions(p, fr) ==
    /\ pass' = [pass EXCEPT ![p] = [fr EXCEPT !.pc = "getSubmissionsByUserId",
                                              !.error = "none"]]
    /\ dbq' = Append(Tail(dbq), p)

\* processSyncQueue line 76 answered: the snapshot, then the first syncItem
PassItemsFetched(p) ==
    /\ Owns(p)
    /\ pass[p].pc = "getPendingSyncItems"
    /\ LET items == GetPendingSyncItems IN
       IF items # <<>>
       THEN /\ pass' = [pass EXCEPT ![p] = [@ EXCEPT !.pendingItems = items,
                                                      !.i = 1,
                                                      !.pc = "syncItem"]]
            /\ dbq' = Tail(dbq)
       ELSE EnterSubmissions(p, pass[p])
    /\ UNCHANGED <<isOnline, syncInProgress, syncInterval, db,
                   report_submissions, sync_queue, nextSub, nextEntry, pc,
                   result, hist,
                   platform, reports, del>>
    /\ UNCHANGED authVars
    /\ UNCHANGED fillVars

\* syncItem, lines 94-149: how the call for an item can end.  Resolving the
\* endpoint or the verb throws for a type or action outside the switch;
\* makeHttpRequest resolves, or rejects with 'Network error'.
SyncItemOutcomes(item) ==
    IF item.type \notin {"submission", "report", "user", "project"}
    THEN {"Unknown sync item type"}
    ELSE IF item.action \notin {"create", "update", "delete"}
    THEN {"Unknown sync action"}
    ELSE {"ok", "Network error"}

\* variant: the entry is removed whatever came of the call
StatementAfter_Removing(outcome) == "removeSyncQueueItem"

\* processSyncQueue lines 79-90: the statement issued after syncItem
StatementAfter(outcome) ==
    IF outcome = "ok" THEN "removeSyncQueueItem" ELSE "updateSyncQueueItem"

\* syncItem settles for the current item (lines 80-89): on success
\* removeSyncQueueItem is issued, on failure updateSyncQueueItem
PassItemSent(p) ==
    /\ pass[p].pc = "syncItem"
    /\ \E outcome \in SyncItemOutcomes(pass[p].pendingItems[pass[p].i]) :
        LET item == pass[p].pendingItems[pass[p].i]
            ok == outcome = "ok"
        IN
        /\ pass' = [pass EXCEPT ![p] =
                      [@ EXCEPT !.pc = StatementAfter(outcome),
                                !.error = IF ok THEN "none" ELSE outcome,
                                !.allOk = @ /\ ok]]
        /\ hist' = [hist EXCEPT ![item.id] =
                      [@ EXCEPT !.last = IF ok THEN "ok" ELSE "failed",
                                !.fails = IF ok THEN @ ELSE @ + 1]]
    /\ dbq' = Append(dbq, p)
    /\ UNCHANGED <<isOnline, syncInProgress, syncInterval, db,
                   report_submissions, sync_queue, nextSub, nextEntry, pc,
                   result,
                   platform, reports, del>>
    /\ UNCHANGED authVars
    /\ UNCHANGED fillVars

\* the statement of lines 81 / 85 answered; the loop goes on (line 78)
PassItemRecorded(p) ==
    /\ Owns(p)
    /\ pass[p].pc \in {"removeSyncQueueItem", "updateSyncQueueItem"}
    /\ LET item == pass[p].pendingItems[pass[p].i]
           stored == \E k \in 1..Len(sync_queue) : sync_queue[k].id = item.id
       IN
       /\ IF pass[p].pc = "removeSyncQueueItem"
          THEN /\ sync_queue' = RemoveSyncQueueItem(sync_queue, item.id)
               /\ hist' = [hist EXCEPT ![item.id] = IF stored THEN NoHist ELSE @]
          ELSE /\ sync_queue' = UpdateSyncQueueItem(sync_queue, item.id,
                                     item.attempts + 1, pass[p].error)
               /\ UNCHANGED hist
       /\ IF pass[p].i < Len(pass[p].pendingItems)
          THEN /\ pass' = [pass EXCEPT ![p] = [@ EXCEPT !.i = @ + 1,
                                                         !.error = "none",
                                                         !.pc = "syncItem"]]
               /\ dbq' = Tail(dbq)
          ELSE EnterSubmissions(p, pass[p])
    /\ UNCHANGED <<isOnline, syncInProgress, syncInterval, db,
                   report_submissions, nextSub, nextEntry, pc, result,
                   platform, reports, del>>
    /\ UNCHANGED authVars
    /\ UNCHANGED fillVars

\* syncPendingSubmissions lines 153-154: the pending submissions of
\* 'current_user_id'.  The rows come ORDER BY last_modified DESC; the stamps
\* are not part of the state, so the loop takes them in any order.
\* variant: the filter of line 154 left out
PendingSubmissions_Unfiltered == GetSubmissionsByUserId(CurrentUser)

\* variant: submissions marked error are taken up again
PendingSubmissions_RetryingErrors ==
    {s \in GetSubmissionsByUserId(CurrentUser) :
        report_submissions[s].syncStatus \in {"pending", "error"}}

PendingSubmissions ==
    {s \in GetSubmissionsByUserId(CurrentUser) :
        report_submissions[s].syncStatus = "pending"}

PassSubmissionsFetched(p) ==
    /\ Owns(p)
    /\ pass[p].pc = "getSubmissionsByUserId"
    /\ LET pending == PendingSubmissions IN
       IF pending = {}
       THEN FinishSync(p, Tail(dbq))
       ELSE /\ \E s \in pending :
                 pass' = [pass EXCEPT ![p] =
                            [@ EXCEPT !.pendingSubmissions = pending \ {s},
                                      !.read = [x \in pending |->
                                                  report_submissions[x].data],
                                      !.submission = s,
                                      !.pc = "syncSubmission"]]
            /\ dbq' = Tail(dbq)
            /\ UNCHANGED <<syncInProgress, syncInterval, pc, result>>
    /\ UNCHANGED <<isOnline, db, report_submissions, sync_queue, nextSub,
                   nextEntry, hist,
                   platform, reports, del>>
    /\ UNCHANGED authVars
    /\ UNCHANGED fillVars

\* makeHttpRequest settles for the current submission (lines 158-167)
PassSubmissionSent(p) ==
    /\ pass[p].pc = "syncSubmission"
    /\ \E ok \in BOOLEAN :
        pass' = [pass EXCEPT ![p] =
                   [@ EXCEPT !.pc = IF ok THEN "updateSubmission:synced"
                                      ELSE "updateSubmission:error",
                             !.allOk = @ /\ ok]]
    /\ dbq' = Append(dbq, p)
    /\ UNCHANGED <<isOnline, syncInProgress, syncInterval, db,
                   report_submissions, sync_queue, nextSub, nextEntry, pc,
                   result, hist,
                   platform, reports, del>>
    /\ UNCHANGED authVars
    /\ UNCHANGED fillVars

\* the statement of lines 159 / 165 answered; next submission, or the end
PassSubmissionRecorded(p) ==
    /\ Owns(p)
    /\ pass[p].pc \in {"updateSubmission:synced", "updateSubmission:error"}
    /\ report_submissions' =
          UpdateSubmission(report_submissions, pass[p].submission,
              [syncStatus |-> IF pass[p].pc = "updateSubmission:synced"
                              THEN "synced" ELSE "error"])
    /\ IF pass[p].pendingSubmissions = {}
       THEN FinishSync(p, Tail(dbq))
       ELSE /\ \E s \in pass[p].pendingSubmissions :
                 pass' = [pass EXCEPT ![p] =
                            [@ EXCEPT !.pendingSubmissions = @ \ {s},
                                      !.submission = s,
                                      !.pc = "syncSubmission"]]
            /\ dbq' = Tail(dbq)
            /\ UNCHANGED <<syncInProgress, syncInterval, pc, result>>
    /\ UNCHANGED <<isOnline, db, sync_queue, nextSub, nextEntry, hist,
                   platform, reports, del>>
    /\ UNCHANGED authVars
    /\ UNCHANGED fillVars

\* ------------------------------------------------- callers of SyncService
Idle(c) == pc[c].op = "idle"

\* queue entry ids still to be drawn by calls that are under way
Undrawn == Cardinality({c \in Callers :
                pc[c].at \in {"createSubmission", "updateSubmission"}})
EntryLeft == nextEntry + Undrawn <= MaxEntries

\* The form data a write stores.  Every write carries data no earlier write
\* carried; the value is named by the ordinal of the write, which is also
\* the id of the queue entry enqueued for it (drawn in the same turn), so
\* that an entry's data is its id.
FormData == nextEntry

\* SyncService.addToSyncQueue line 193 issued (DatabaseService.addToSyncQueue
\* lines 807-825: guard passed, id drawn, INSERT submitted)
IssueAddToSyncQueue(c) ==
    /\ pc' = [pc EXCEPT ![c] = [@ EXCEPT !.at = "addToSyncQueue",
                                         !.entry = nextEntry]]
    /\ nextEntry' = nextEntry + 1
    /\ dbq' = Append(Tail(dbq), c)

\* saveSubmissionOffline called: the submission of lines 215-225 is built
\* (isOffline: true), then createSubmission lines 698-717, which throws
\* without a connection and otherwise draws the id and submits the INSERT
CreateCall(c, userId, reportId, status) ==
    /\ Idle(c)
    /\ EntryLeft
    /\ IF ~db
       THEN /\ result' = [result EXCEPT ![c] =
                  Threw("saveSubmissionOffline", "Database not initialized")]
            /\ UNCHANGED <<pc, nextSub, dbq>>
       ELSE /\ pc' = [pc EXCEPT ![c] =
                        [IdleCall EXCEPT !.op = "saveSubmissionOffline",
                                         !.at = "createSubmission",
                                         !.id = nextSub,
                                         !.userId = userId,
                                         !.reportId = reportId,
                                         !.status = status,
                                         !.isOffline = TRUE]]
            /\ nextSub' = nextSub + 1
            /\ dbq' = Append(dbq, c)
            /\ result' = [result EXCEPT ![c] = Pending("saveSubmissionOffline")]
    /\ UNCHANGED <<isOnline, syncInProgress, syncInterval, db,
                   report_submissions, sync_queue, nextEntry, pass, hist,
                   platform, reports, del>>
    /\ UNCHANGED authVars

\* the call, for as long as an id is left to draw
SaveSubmissionOffline(c, userId, reportId, status) ==
    /\ nextSub <= MaxSubs
    /\ CreateCall(c, userId, reportId, status)
    /\ UNCHANGED fillVars

\* the INSERT of createSubmission answered; lines 228-234 call addToSyncQueue
SubmissionCreated(c) ==
    /\ Owns(c)
    /\ pc[c].at = "createSubmission"
    /\ report_submissions' = report_submissions @@
          (pc[c].id :> [reportId |-> pc[c].reportId, userId |-> pc[c].userId,
                        data |-> FormData, status |-> pc[c].status,
                        version |-> 1, isOffline |-> pc[c].isOffline,
                        syncStatus |-> "pending"])
    /\ IssueAddToSyncQueue(c)
    /\ UNCHANGED <<isOnline, syncInProgress, syncInterval, db, sync_queue,
                   nextSub, pass, result, hist,
                   platform, reports, del>>
    /\ UNCHANGED authVars
    /\ UNCHANGED fillVars

\* the submissionId a caller can pass: an id some saveSubmissionOffline has
\* returned, or an id no submission has (0)
KnownIds == (1..(nextSub - 1)) \cup {0}

\* variant: a submitted form is stored as approved
UpdateData_Approving(status) ==
    IF status = "none" THEN [syncStatus |-> "pending"]
    ELSE [syncStatus |-> "pending",
          status |-> IF status = "submitted" THEN "approved" ELSE status]

\* updateSubmissionOffline lines 245-254: syncStatus 'pending', and the
\* status when the caller passed one ("none": no third argument)
UpdateData(status) ==
    IF status = "none" THEN [syncStatus |-> "pending"]
    ELSE [syncStatus |-> "pending", status |-> status]

\* updateSubmissionOffline called with updateData.syncStatus = 'pending'
\* (lines 245-248): updateSubmission lines 726-760
UpdateCall(c, submissionId, status) ==
    /\ Idle(c)
    /\ EntryLeft
    /\ IF ~db
       THEN /\ result' = [result EXCEPT ![c] =
                  Threw("updateSubmissionOffline", "Database not initialized")]
            /\ UNCHANGED <<pc, dbq>>
       ELSE /\ pc' = [pc EXCEPT ![c] =
                        [IdleCall EXCEPT !.op = "updateSubmissionOffline",
                                         !.at = "updateSubmission",
                                         !.id = submissionId,
                                         !.status = status]]
            /\ dbq' = Append(dbq, c)
            /\ result' = [result EXCEPT ![c] = Pending("updateSubmissionOffline")]
    /\ UNCHANGED <<isOnline, syncInProgress, syncInterval, db,
                   report_submissions, sync_queue, nextSub, nextEntry, pass,
                   hist,
                   platform, reports, del>>
    /\ UNCHANGED authVars

\* the call, with the id of a stored submission or with one no row has
UpdateSubmissionOffline(c, submissionId, status) ==
    /\ submissionId \in KnownIds
    /\ UpdateCall(c, submissionId, status)
    /\ UNCHANGED fillVars

\* the UPDATE answered; lines 260-263 call addToSyncQueue
SubmissionUpdated(c) ==
    /\ Owns(c)
    /\ pc[c].at = "updateSubmission"
    /\ report_submissions' =
          UpdateSubmission(report_submissions, pc[c].id,
                           [data |-> FormData] @@ UpdateData(pc[c].status))
    /\ IssueAddToSyncQueue(c)
    /\ UNCHANGED <<isOnline, syncInProgress, syncInterval, db, sync_queue,
                   nextSub, pass, result, hist,
                   platform, reports, del>>
    /\ UNCHANGED authVars
    /\ UNCHANGED fillVars

\* variant: `await this.startSync()`
AddToSyncQueueAwaits_Pass == TRUE

\* addToSyncQueue line 204: `this.startSync()` is not awaited
AddToSyncQueueAwaits == FALSE

\* the INSERT of addToSyncQueue answered; lines 203-205, then the caller
\* (saveSubmissionOffline line 236 / updateSubmissionOffline) returns
AddedToSyncQueue(c) ==
    /\ Owns(c)
    /\ pc[c].at = "addToSyncQueue"
    /\ sync_queue' = AddToSyncQueue(sync_queue, pc[c].entry,
          IF pc[c].op = "saveSubmissionOffline" THEN "create" ELSE "update",
          pc[c].id)
    /\ IF isOnline /\ ~syncInProgress
       THEN StartSync(isOnline, Tail(dbq))
       ELSE /\ dbq' = Tail(dbq)
            /\ UNCHANGED <<syncInProgress, pass>>
    /\ IF AddToSyncQueueAwaits /\ isOnline /\ ~syncInProgress /\ StartsPass(isOnline)
       THEN /\ pc' = [pc EXCEPT ![c] = [@ EXCEPT !.at = "startSync",
                                                 !.awaits = NewPass]]
            /\ UNCHANGED result
       ELSE /\ pc' = [pc EXCEPT ![c] = IdleCall]
            /\ result' = [result EXCEPT ![c] =
                  Returned(pc[c].op,
                           IF pc[c].op = "saveSubmissionOffline" THEN pc[c].id ELSE 0,
                           isOnline /\ ~syncInProgress /\ StartsPass(isOnline))]
    /\ UNCHANGED <<isOnline, syncInterval, db, report_submissions, nextSub,
                   nextEntry, hist,
                   platform, reports, del>>
    /\ UNCHANGED authVars
    /\ UNCHANGED fillVars

\* forcSync, lines 272-278: throws offline, otherwise awaits startSync
ForcSync(c) ==
    /\ Idle(c)
    /\ IF ~isOnline
       THEN /\ result' = [result EXCEPT ![c] =
                  Threw("forcSync", "Cannot sync while offline")]
            /\ UNCHANGED <<pc, syncInProgress, pass, dbq>>
       ELSE /\ StartSync(isOnline, dbq)
            /\ IF StartsPass(isOnline)
               THEN /\ pc' = [pc EXCEPT ![c] =
                                [IdleCall EXCEPT !.op = "forcSync",
                                                 !.at = "startSync",
                                                 !.awaits = NewPass]]
                    /\ result' = [result EXCEPT ![c] = Pending("forcSync")]
               ELSE /\ result' = [result EXCEPT ![c] = Returned("forcSync", 0, FALSE)]
                    /\ UNCHANGED pc
    /\ UNCHANGED <<isOnline, syncInterval, db, report_submissions, sync_queue,
                   nextSub, nextEntry, hist,
                   platform, reports, del>>
    /\ UNCHANGED authVars
    /\ UNCHANGED fillVars

IsExhausted(item) == item.attempts >= MaxAttempts

\* lines 286-287 and 298-299: getPendingSyncItems(), then
\* pendingItems.filter(item => item.attempts >= 3)
FailedItems == SelectSeq(GetPendingSyncItems, IsExhausted)

\* getSyncStats called: getPendingSyncItems line 787 guard, SELECT submitted
GetSyncStats(c) ==
    /\ Idle(c)
    /\ IF ~db
       THEN /\ result' = [result EXCEPT ![c] =
                  Threw("getSyncStats", "Database not initialized")]
            /\ UNCHANGED <<pc, dbq>>
       ELSE /\ pc' = [pc EXCEPT ![c] = [IdleCall EXCEPT !.op = "getSyncStats",
                                                        !.at = "getPendingSyncItems"]]
            /\ dbq' = Append(dbq, c)
            /\ result' = [result EXCEPT ![c] = Pending("getSyncStats")]
    /\ UNCHANGED <<isOnline, syncInProgress, syncInterval, db,
                   report_submissions, sync_queue, nextSub, nextEntry, pass,
                   hist,
                   platform, reports, del>>
    /\ UNCHANGED authVars
    /\ UNCHANGED fillVars

\* the SELECT answered; lines 287-293
SyncStatsFetched(c) ==
    /\ Owns(c)
    /\ pc[c].op = "getSyncStats"
    /\ result' = [result EXCEPT ![c] =
          [Returned("getSyncStats", 0, FALSE) EXCEPT
                !.pendingItems = Len(GetPendingSyncItems),
                !.failedItems = Len(FailedItems)]]
    /\ pc' = [pc EXCEPT ![c] = IdleCall]
    /\ dbq' = Tail(dbq)
    /\ UNCHANGED <<isOnline, syncInProgress, syncInterval, db,
                   report_submissions, sync_queue, nextSub, nextEntry, pass,
                   hist,
                   platform, reports, del>>
    /\ UNCHANGED authVars
    /\ UNCHANGED fillVars

\* clearFailedSyncItems called: line 298 submitted
ClearFailedSyncItems(c) ==
    /\ Idle(c)
    /\ IF ~db
       THEN /\ result' = [result EXCEPT ![c] =
                  Threw("clearFailedSyncItems", "Database not initialized")]
            /\ UNCHANGED <<pc, dbq>>
       ELSE /\ pc' = [pc EXCEPT ![c] =
                        [IdleCall EXCEPT !.op = "clearFailedSyncItems",
                                         !.at = "getPendingSyncItems"]]
            /\ dbq' = Append(dbq, c)
            /\ result' = [result EXCEPT ![c] = Pending("clearFailedSyncItems")]
    /\ UNCHANGED <<isOnline, syncInProgress, syncInterval, db,
                   report_submissions, sync_queue, nextSub, nextEntry, pass,
                   hist,
                   platform, reports, del>>
    /\ UNCHANGED authVars
    /\ UNCHANGED fillVars

\* a statement of clearFailedSyncItems answered: the SELECT of line 298
\* (then the filter of line 299) or a DELETE of line 302; the loop of lines
\* 301-303 submits the next DELETE, or the call returns
FailedSyncItemsStep(c) ==
    /\ Owns(c)
    /\ pc[c].op = "clearFailedSyncItems"
    /\ LET selected == pc[c].at = "getPendingSyncItems"
           left == IF selected THEN FailedItems ELSE Tail(pc[c].failedItems)
       IN
       /\ IF selected
          THEN UNCHANGED <<sync_queue, hist>>
          ELSE LET id == Head(pc[c].failedItems).id IN
               /\ sync_queue' = RemoveSyncQueueItem(sync_queue, id)
               /\ hist' = [hist EXCEPT ![id] = NoHist]
       /\ IF left = <<>>
          THEN /\ pc' = [pc EXCEPT ![c] = IdleCall]
               /\ result' = [result EXCEPT ![c] =
                     Returned("clearFailedSyncItems", 0, FALSE)]
               /\ dbq' = Tail(dbq)
          ELSE /\ pc' = [pc EXCEPT ![c] = [@ EXCEPT !.at = "removeSyncQueueItem",
                                                    !.failedItems = left]]
               /\ dbq' = Append(Tail(dbq), c)
               /\ UNCHANGED result
    /\ UNCHANGED <<isOnline, syncInProgress, syncInterval, db,
                   report_submissions, nextSub, nextEntry, pass,
                   platform, reports, del>>
    /\ UNCHANGED authVars
    /\ UNCHANGED fillVars

\* ---------------------------------------------------------------------
\* CreateReportScreen: the confirmed "Excluir" calls
\* databaseService.deleteReport(report.id)   (AuthContext.tsx lines 636-648)
\* ---------------------------------------------------------------------

\* report_submissions after DELETE FROM report_submissions WHERE report_id = ?
DeleteSubmissionsOfReport(t, reportId) ==
    [s \in {x \in DOMAIN t : t[x].reportId # reportId} |-> t[s]]

\* the call: ensureInitialized opens the store if it is not open yet, then
\* the first DELETE is issued
DeleteReport(r) ==
    /\ del.at = "idle"
    /\ r \in reports
    /\ platform = "native"
    /\ db' = TRUE
    /\ del' = [at |-> "report_submissions", id |-> r]
    /\ dbq' = Append(dbq, "del")
    /\ UNCHANGED <<isOnline, syncInProgress, syncInterval, platform, reports,
                   report_submissions, sync_queue, nextSub, nextEntry, pass,
                   pc, result, hist>>
    /\ UNCHANGED authVars
    /\ UNCHANGED fillVars

\* the first DELETE answered (lines 641-644); the second is issued (line 647)
SubmissionsDeleted ==
    /\ Owns("del")
    /\ del.at = "report_submissions"
    /\ report_submissions' = DeleteSubmissionsOfReport(report_submissions, del.id)
    /\ del' = [del EXCEPT !.at = "reports"]
    /\ dbq' = Append(Tail(dbq), "del")
    /\ UNCHANGED <<isOnline, syncInProgress, syncInterval, db, platform, reports,
                   sync_queue, nextSub, nextEntry, pass, pc, result, hist>>
    /\ UNCHANGED authVars
    /\ UNCHANGED fillVars

\* DELETE FROM reports WHERE id = ? answered: deleteReport returns.  The
\* FOREIGN KEY (report_id) clause of line 316 does not stop the statement:
\* SQLite enforces foreign keys only after PRAGMA foreign_keys = ON, which
\* init and createTables never issue.
ReportDeleted ==
    /\ Owns("del")
    /\ del.at = "reports"
    /\ reports' = reports \ {del.id}
    /\ del' = [del EXCEPT !.at = "done"]
    /\ dbq' = Tail(dbq)
    /\ UNCHANGED <<isOnline, syncInProgress, syncInterval, db, platform,
                   report_submissions, sync_queue, nextSub, nextEntry, pass,
                   pc, result, hist>>
    /\ UNCHANGED authVars
    /\ UNCHANGED fillVars

\* ---------------------------------------------------------------------
\* AuthProvider (AuthContext.tsx lines 57-211) and the users table
\* ---------------------------------------------------------------------

\* everything but the statement queue and what the authentication screens own
syncVars == <<isOnline, syncInProgress, syncInterval, db, platform, reports,
              del, report_submissions, sync_queue, nextSub, nextEntry, pass,
              pc, result, hist, fillVars>>

EmailsOf(t) == {t[k].email : k \in 1..Len(t)}

\* email TEXT UNIQUE NOT NULL (line 269): the INSERT is refused
ViolatesUnique(t, email) == email \in EmailsOf(t)

\* variant: the column declared without UNIQUE
InsertUser_WithoutUnique(t, id, email) == Append(t, [id |-> id, email |-> email])

\* INSERT INTO users (id, email, ...) VALUES (?, ?, ...)   (lines 389-392)
InsertUser(t, id, email) ==
    IF ViolatesUnique(t, email) THEN t
    ELSE Append(t, [id |-> id, email |-> email])

\* the call ends: by returning ("ok") or by throwing the message
Ended(fr, out) == [fr EXCEPT !.at = "idle", !.out = out]

\* calls that will still draw an id if their address turns out to be free
MayDraw == {a \in AuthCallers : reg[a].at = "getUserByEmail"}

\* the call cannot take the number of ids drawn past MaxUsers: its address
\* is stored (rows are never deleted), or an id is left for it
UserIdLeft(email) ==
    \/ email \in EmailsOf(users)
    \/ nextUser + Cardinality(MayDraw) <= MaxUsers

\* register (lines 129-170) and login (85-127) up to their first await,
\* getUserByEmail, which throws at once while the store is not open (line 398)
AuthCall(a, op, email) ==
    /\ reg[a].at = "idle"
    /\ UserIdLeft(email)
    /\ LET fr == [op |-> op, at |-> "getUserByEmail", email |-> email,
                  id |-> 0, existed |-> email \in EmailsOf(users),
                  out |-> "none"]
       IN  IF ~db
           THEN /\ reg' = [reg EXCEPT ![a] = Ended(fr, "Database not initialized")]
                /\ dbq' = dbq
           ELSE /\ reg' = [reg EXCEPT ![a] = fr]
                /\ dbq' = Append(dbq, a)
    /\ UNCHANGED <<users, nextUser, auth, syncVars>>

Register(a, email) == AuthCall(a, "register", email)
Login(a, email) == AuthCall(a, "login", email)

\* SELECT * FROM users WHERE email = ? answered.  register throws when a row
\* came back (lines 133-136); login goes on with it (line 89); otherwise
\* createUser draws an id and issues its INSERT
UserByEmailFetched(a) ==
    /\ Owns(a)
    /\ reg[a].at = "getUserByEmail"
    /\ LET found == reg[a].email \in EmailsOf(users) IN
       IF found /\ reg[a].op = "register"
       THEN /\ reg' = [reg EXCEPT ![a] =
                         Ended(@, "Usuário já existe com este email")]
            /\ dbq' = Tail(dbq)
            /\ UNCHANGED nextUser
       ELSE IF found
       THEN /\ reg' = [reg EXCEPT ![a] = [@ EXCEPT !.at = "setItemAsync"]]
            /\ dbq' = Tail(dbq)
            /\ UNCHANGED nextUser
       ELSE /\ reg' = [reg EXCEPT ![a] = [@ EXCEPT !.at = "createUser",
                                                    !.id = nextUser]]
            /\ nextUser' = nextUser + 1
            /\ dbq' = Append(Tail(dbq), a)
    /\ UNCHANGED <<users, auth, syncVars>>

\* the INSERT of createUser answered: refused, and the error travels up
\* through register's catch (lines 163-165), or done, and getUserById is issued
UserCreated(a) ==
    /\ Owns(a)
    /\ reg[a].at = "createUser"
    /\ users' = InsertUser(users, reg[a].id, reg[a].email)
    /\ IF ViolatesUnique(users, reg[a].email)
       THEN /\ reg' = [reg EXCEPT ![a] =
                         Ended(@, "UNIQUE constraint failed: users.email")]
            /\ dbq' = Tail(dbq)
       ELSE /\ reg' = [reg EXCEPT ![a] = [@ EXCEPT !.at = "getUserById"]]
            /\ dbq' = Append(Tail(dbq), a)
    /\ UNCHANGED <<nextUser, auth, syncVars>>

\* SELECT * FROM users WHERE id = ? answered (lines 145-148, 99-104)
UserByIdFetched(a) ==
    /\ Owns(a)
    /\ reg[a].at = "getUserById"
    /\ reg' = [reg EXCEPT ![a] =
                 IF \E k \in 1..Len(users) : users[k].id = reg[a].id
                 THEN [@ EXCEPT !.at = "setItemAsync"]
                 ELSE Ended(@, "Falha ao criar usuário")]
    /\ dbq' = Tail(dbq)
    /\ UNCHANGED <<users, nextUser, auth, syncVars>>

\* the SecureStore writes done: dispatch LOGIN_SUCCESS (lines 158-161, 114-117)
LoginSuccess(a) ==
    /\ reg[a].at = "setItemAsync"
    /\ auth' = [isAuthenticated |-> TRUE, user |-> reg[a].email]
    /\ reg' = [reg EXCEPT ![a] = Ended(@, "ok")]
    /\ UNCHANGED <<users, nextUser, dbq, syncVars>>

\* logout (lines 172-182): dispatch LOGOUT
Logout ==
    /\ auth.isAuthenticated
    /\ auth' = initialState
    /\ UNCHANGED <<users, nextUser, reg, dbq, syncVars>>

\* ---------------------------------------------------------------------
\* FillReportScreen (src/unnamed/part_001), signed in as FillUser
\* ---------------------------------------------------------------------

\* what the screen's actions leave alone: the engine, the other screens
besideFill == <<isOnline, syncInProgress, syncInterval, platform, reports, del,
                report_submissions, sync_queue, nextSub, nextEntry, pass, pc,
                result, hist, authVars>>

\* loadReportAndSubmission (lines 55-94) up to its first statement:
\* getReportById opens the store if need be (ensureInitialized), and on the
\* web returns null, after which the screen goes back (lines 58-62)
LoadReportAndSubmission ==
    /\ screen.at = "closed"
    /\ platform = "native"
    /\ db' = TRUE
    /\ screen' = [screen EXCEPT !.at = "getReportById"]
    /\ dbq' = Append(dbq, "screen")
    /\ UNCHANGED <<fill, besideFill>>

\* SELECT * FROM reports WHERE id = ? answered: setReport, then
\* getSubmissionsByUserId(state.user.id) (line 77); no row, and the screen
\* goes back
ReportLoaded ==
    /\ Owns("screen")
    /\ screen.at = "getReportById"
    /\ IF \E r \in Reports : r \in reports
       THEN /\ screen' = [screen EXCEPT !.at = "getSubmissionsByUserId"]
            /\ dbq' = Append(Tail(dbq), "screen")
       ELSE /\ screen' = ClosedScreen
            /\ dbq' = Tail(dbq)
    /\ UNCHANGED <<db, fill, besideFill>>

\* userSubmissions.find(s => s.reportId === reportData.id && s.status === 'draft')
DraftsOf(userId, reportId) ==
    {s \in GetSubmissionsByUserId(userId) :
        /\ report_submissions[s].reportId = reportId
        /\ report_submissions[s].status = "draft"}

\* the submissions answered: setSubmission(draftSubmission) if one was found
\* (lines 78-85), setLoading(false)
DraftLoaded ==
    /\ Owns("screen")
    /\ screen.at = "getSubmissionsByUserId"
    /\ \E r \in Reports :
          IF DraftsOf(FillUser, r) = {}
          THEN screen' = [screen EXCEPT !.at = "loaded"]
          ELSE \E s \in DraftsOf(FillUser, r) :
                  screen' = [at |-> "loaded", submission |-> s]
    /\ dbq' = Tail(dbq)
    /\ UNCHANGED <<db, fill, besideFill>>

\* the user leaves the screen (navigation.goBack) with no autoSave under
\* way; the component's state is dropped, and the next visit loads anew
LeaveScreen ==
    /\ screen.at = "loaded"
    /\ \A c \in Callers : fill[c].at = "idle"
    /\ screen' = ClosedScreen
    /\ UNCHANGED <<db, dbq, fill, besideFill>>

\* autoSave (lines 96-122), called by the 30-second timer (lines 45-53) or
\* by handleSaveDraft (line 158): with a submission in the screen's state it
\* calls updateSubmissionOffline(submission.id, formData), without one
\* saveSubmissionOffline(report.id, state.user.id, formData, 'draft')
AutoSave(c) ==
    /\ screen.at = "loaded"
    /\ fill[c].at = "idle"
    /\ IF screen.submission # 0
       THEN /\ UpdateCall(c, screen.submission, "none")
            /\ fill' = [fill EXCEPT ![c] = [IdleFill EXCEPT
                                              !.at = "updateSubmissionOffline"]]
       ELSE /\ nextSub <= MaxDrafts
            /\ \E r \in Reports : CreateCall(c, FillUser, r, "draft")
            /\ fill' = [fill EXCEPT ![c] = [IdleFill EXCEPT
                                              !.at = "saveSubmissionOffline"]]
    /\ UNCHANGED screen

\* the awaited call is over.  After updateSubmissionOffline, or after a
\* throw (the catch of lines 119-121), autoSave ends; after a save it reads
\* the submissions back (line 113)
AutoSaveResumed(c) ==
    /\ fill[c].at \in {"updateSubmissionOffline", "saveSubmissionOffline"}
    /\ Idle(c)
    /\ IF fill[c].at = "saveSubmissionOffline" /\ result[c].value = "ok"
       THEN /\ fill' = [fill EXCEPT ![c] = [at |-> "getSubmissionsByUserId",
                                            id |-> result[c].id]]
            /\ dbq' = Append(dbq, c)
       ELSE /\ fill' = [fill EXCEPT ![c] = IdleFill]
            /\ dbq' = dbq
    /\ UNCHANGED <<db, screen, besideFill>>

\* the submissions answered: setSubmission(createdSubmission) if the row is
\* among them (lines 114-117)
SubmissionLoaded(c) ==
    /\ Owns(c)
    /\ fill[c].at = "getSubmissionsByUserId"
    /\ screen' = IF fill[c].id \in GetSubmissionsByUserId(FillUser)
                 THEN [screen EXCEPT !.submission = fill[c].id]
                 ELSE screen
    /\ fill' = [fill EXCEPT ![c] = IdleFill]
    /\ dbq' = Tail(dbq)
    /\ UNCHANGED <<db, besideFill>>

\* ------------------------------------------------------------ Next
\* The synchronisation engine under the calls FillReportScreen.autoSave makes:
\* updateSubmissionOffline(id, formData) and
\* saveSubmissionOffline(report.id, user.id, formData, 'draft').
Next ==
    \/ \E isConnected \in BOOLEAN : NetInfoEvent(isConnected)
    \/ TimerTick
    \/ DatabaseInit
    \/ \E p \in Passes : PassItemsFetched(p)
    \/ \E p \in Passes : PassItemSent(p)
    \/ \E p \in Passes : PassItemRecorded(p)
    \/ \E p \in Passes : PassSubmissionsFetched(p)
    \/ \E p \in Passes : PassSubmissionSent(p)
    \/ \E p \in Passes : PassSubmissionRecorded(p)
    \/ \E c \in Clients, u \in Users, r \in Reports :
          SaveSubmissionOffline(c, u, r, "draft")
    \/ \E c \in Clients : SubmissionCreated(c)
    \/ \E c \in Clients, s \in 0..MaxSubs : UpdateSubmissionOffline(c, s, "none")
    \/ \E c \in Clients : SubmissionUpdated(c)
    \/ \E c \in Clients : AddedToSyncQueue(c)
    \/ \E c \in Clients : ForcSync(c)
    \/ \E c \in Clients : GetSyncStats(c)
    \/ \E c \in Clients : SyncStatsFetched(c)
    \/ \E c \in Clients : ClearFailedSyncItems(c)
    \/ \E c \in Clients : FailedSyncItemsStep(c)

Spec == Init /\ [][Next]_vars

\* The store under every form of the two local writes (autoSave, handleSubmit
\* and the optional status argument), for the signed-in user, with the
\* engine's passes running beside them.
StoreNext ==
    \/ \E isConnected \in BOOLEAN : NetInfoEvent(isConnected)
    \/ TimerTick
    \/ DatabaseInit
    \/ \E p \in Passes : PassItemsFetched(p)
    \/ \E p \in Passes : PassItemSent(p)
    \/ \E p \in Passes : PassItemRecorded(p)
    \/ \E p \in Passes : PassSubmissionsFetched(p)
    \/ \E p \in Passes : PassSubmissionSent(p)
    \/ \E p \in Passes : PassSubmissionRecorded(p)
    \/ \E c \in Clients, r \in Reports, st \in Statuses :
          SaveSubmissionOffline(c, CurrentUser, r, st)
    \/ \E c \in Clients : SubmissionCreated(c)
    \/ \E c \in Clients, s \in 0..MaxSubs, st \in Statuses \cup {"none"} :
          UpdateSubmissionOffline(c, s, st)
    \/ \E c \in Clients : SubmissionUpdated(c)
    \/ \E c \in Clients : AddedToSyncQueue(c)

StoreSpec == Init /\ [][StoreNext]_vars

\* the store under the two screens that write to it while the device stays
\* offline (no pass runs): FillReportScreen saves and updates submissions,
\* CreateReportScreen deletes the report
DeleteNext ==
    \/ DatabaseInit
    \/ \E c \in Clients, r \in Reports, st \in Statuses :
          SaveSubmissionOffline(c, CurrentUser, r, st)
    \/ \E c \in Clients : SubmissionCreated(c)
    \/ \E c \in Clients, s \in 0..MaxSubs, st \in Statuses \cup {"none"} :
          UpdateSubmissionOffline(c, s, st)
    \/ \E c \in Clients : SubmissionUpdated(c)
    \/ \E c \in Clients : AddedToSyncQueue(c)
    \/ \E r \in Reports : DeleteReport(r)
    \/ SubmissionsDeleted
    \/ ReportDeleted

DeleteSpec == Init /\ [][DeleteNext]_vars

\* the authentication screens: register and login presses, overlapping or not
AuthNext ==
    \/ DatabaseInit
    \/ \E a \in AuthCallers, email \in Emails : Register(a, email)
    \/ \E a \in AuthCallers, email \in Emails : Login(a, email)
    \/ \E a \in AuthCallers : UserByEmailFetched(a)
    \/ \E a \in AuthCallers : UserCreated(a)
    \/ \E a \in AuthCallers : UserByIdFetched(a)
    \/ \E a \in AuthCallers : LoginSuccess(a)
    \/ Logout

AuthSpec == Init /\ [][AuthNext]_vars

\* FillReportScreen while the device stays offline: the screen loads, and
\* the timer and the Save Draft button call autoSave, overlapping or not
FillNext ==
    \/ DatabaseInit
    \/ LoadReportAndSubmission
    \/ ReportLoaded
    \/ DraftLoaded
    \/ LeaveScreen
    \/ \E c \in Callers : AutoSave(c)
    \/ \E c \in Callers : SubmissionCreated(c)
    \/ \E c \in Callers : SubmissionUpdated(c)
    \/ \E c \in Callers : AddedToSyncQueue(c)
    \/ \E c \in Callers : AutoSaveResumed(c)
    \/ \E c \in Callers : SubmissionLoaded(c)

FillSpec == Init /\ [][FillNext]_vars

TypeOK ==
    /\ isOnline \in BOOLEAN
    /\ syncInProgress \in BOOLEAN
    /\ syncInterval \in BOOLEAN
    /\ db \in BOOLEAN
    /\ platform \in {"native", "web"}
    /\ platform = "web" => ~db
    /\ reports \subseteq Reports
    /\ del.at \in {"idle", "report_submissions", "reports", "done"}
    /\ DOMAIN report_submissions \subseteq SubIds
    /\ \A s \in DOMAIN report_submissions :
          /\ report_submissions[s].status \in AllStatuses
          /\ report_submissions[s].reportId \in Reports
          /\ report_submissions[s].syncStatus \in {"pending", "synced", "error"}
    /\ Len(sync_queue) <= MaxEntries
    /\ \A k \in 1..Len(sync_queue) : sync_queue[k].attempts \in 0..MaxAttempts
    /\ Len(users) <= MaxUsers
    /\ \A k \in 1..Len(users) : users[k].email \in Emails
    /\ auth.user \in Emails \cup {"none"}
    /\ auth.isAuthenticated <=> auth.user # "none"
    /\ \A a \in AuthCallers :
          reg[a].at \in {"idle", "getUserByEmail", "createUser", "getUserById",
                         "setItemAsync"}


\* ================================================================ claims
QueueIds(q) == {q[k].id : k \in 1..Len(q)}
EntriesFor(q, entityId) == {k \in 1..Len(q) : q[k].entityId = entityId}
ActivePasses == {p \in Passes : pass[p].pc # "idle"}
Returns(c, op) == pc[c].op = op /\ pc'[c].op = "idle"

\* ---------------------------------------------------------------- C1
\* C1: at most one drain pass is in progress at any time, syncInProgress
\* being true exactly while one is; a startSync request made while
\* syncInProgress is true (timer tick, forcSync, online event, addToSyncQueue)
\* starts no pass, and the tick, forcSync and the online event leave the sync
\* queue, the submissions, the running pass and the statement queue as they were.
OnePassAtATime ==
    /\ Cardinality(ActivePasses) <= 1
    /\ syncInProgress <=> ActivePasses # {}

RequestWhileInProgress ==
    syncInProgress =>
        /\ ActivePasses' \subseteq ActivePasses
        /\ (TimerTick \/ NetInfoEvent(TRUE) \/ \E c \in Clients : ForcSync(c)) =>
              UNCHANGED <<sync_queue, report_submissions, pass, dbq>>

C1_SingleDrainPass == []OnePassAtATime /\ [][RequestWhileInProgress]_vars

\* forcSync has returned at once, without starting a pass, while one runs
C1_Witness ==
    \E c \in Clients :
        /\ result[c] = Returned("forcSync", 0, FALSE)
        /\ db /\ isOnline /\ syncInProgress
        /\ Cardinality(ActivePasses) = 1

\* ---------------------------------------------------------------- C2
\* C2: when saveSubmissionOffline returns, the submission with the returned id
\* is stored with syncStatus pending, and getPendingSyncItems holds exactly
\* one entry for it: type submission, action create, attempts 0; a call that
\* finds the device offline starts no drain pass.
SaveReturn(c) ==
    Returns(c, "saveSubmissionOffline") =>
        LET id == result'[c].id
            active == GetPendingSyncItems'
            mine == EntriesFor(active, id)
        IN  /\ result'[c].value = "ok"
            /\ id \in DOMAIN report_submissions'
            /\ report_submissions'[id].syncStatus = "pending"
            /\ Cardinality(mine) = 1
            /\ \A k \in mine : /\ active[k].type = "submission"
                               /\ active[k].action = "create"
                               /\ active[k].attempts = 0
            /\ ~isOnline => /\ ~result'[c].started
                            /\ ActivePasses' \subseteq ActivePasses

C2_SavedPendingAndQueued == [][\A c \in Clients : SaveReturn(c)]_vars

\* a save has returned offline: its submission and its entry are there
C2_Witness ==
    \E c \in Clients :
        /\ result[c].op = "saveSubmissionOffline"
        /\ result[c].value = "ok"
        /\ ~isOnline
        /\ result[c].id \in DOMAIN report_submissions
        /\ EntriesFor(sync_queue, result[c].id) # {}


\* ---------------------------------------------------------------- C3
PassEnds(p) == pass[p].pc # "idle" /\ pass'[p].pc = "idle"

\* a local edit of submission s that the ending pass did not carry: its
\* update entry is still queued, or its call is still under way
EditedMeanwhile(s) ==
    \/ \E k \in 1..Len(sync_queue') :
          sync_queue'[k].entityId = s /\ sync_queue'[k].action = "update"
    \/ \E c \in Clients : pc'[c].op = "updateSubmissionOffline" /\ pc'[c].id = s

\* C3: when a drain pass in which every transport call succeeded ends, each
\* submission whose create entry the pass took up (and that was not edited
\* meanwhile) has that entry removed and syncStatus synced, whatever its userId.
SyncedByPass(p) ==
    (PassEnds(p) /\ pass[p].allOk) =>
        \A k \in 1..Len(pass[p].pendingItems) :
            LET item == pass[p].pendingItems[k] IN
            ( /\ item.action = "create"
              /\ item.entityId \in DOMAIN report_submissions'
              /\ ~EditedMeanwhile(item.entityId) ) =>
                  /\ item.id \notin QueueIds(sync_queue')
                  /\ report_submissions'[item.entityId].syncStatus = "synced"

C3_SyncedAfterSuccessfulPass == [][\A p \in Passes : SyncedByPass(p)]_vars

\* ---------------------------------------------------------------- C4
\* the failure of entry e is being written (updateSyncQueueItem under way)
Recording(e) ==
    \E p \in Passes : /\ pass[p].pc = "updateSyncQueueItem"
                      /\ pass[p].pendingItems[pass[p].i].id = e

ExhaustedStays ==
    \A e \in EntryIds :
        (hist[e].fails >= MaxAttempts /\ ~Recording(e)) =>
            /\ hist[e].fails = MaxAttempts
            /\ \E k \in 1..Len(sync_queue) :
                  sync_queue[k].id = e /\ sync_queue[k].attempts = MaxAttempts
            /\ e \notin QueueIds(GetPendingSyncItems)

PassKeepsFailed ==
    (\E p \in Passes : pass'[p] # pass[p]) =>
        \A e \in QueueIds(sync_queue) \ QueueIds(sync_queue') :
            hist[e].last = "ok"

\* C4: an entry whose transport call has failed three times (the third
\* failure written) is stored with attempts = 3 and is not returned by
\* getPendingSyncItems, so it is sent no fourth time; and a step of a drain
\* pass deletes an entry only when its last transport call succeeded.
C4_ExhaustedKept == []ExhaustedStays /\ [][PassKeepsFailed]_vars

\* an entry has failed in three passes and lies dormant in the queue
C4_Witness ==
    /\ ~syncInProgress
    /\ \E k \in 1..Len(sync_queue) :
          /\ sync_queue[k].attempts = MaxAttempts
          /\ hist[sync_queue[k].id].fails = MaxAttempts
          /\ hist[sync_queue[k].id].last = "failed"

\* ---------------------------------------------------------------- C5
\* C5: when clearFailedSyncItems returns, every entry that had attempts >= 3
\* is gone from the sync queue, and every entry with attempts < 3 is as it was.
ClearReturn(c) ==
    Returns(c, "clearFailedSyncItems") =>
        /\ \A k \in 1..Len(sync_queue) :
              IsExhausted(sync_queue[k]) =>
                  sync_queue[k].id \notin QueueIds(sync_queue')
        /\ \A k \in 1..Len(sync_queue) :
              IsAttemptable(sync_queue[k]) =>
                  \E j \in 1..Len(sync_queue') : sync_queue'[j] = sync_queue[k]

C5_ClearRemovesExhausted == [][\A c \in Clients : ClearReturn(c)]_vars

\* ---------------------------------------------------------------- C6
\* C6: getSyncStats returns failedItems = the number of stored entries with
\* attempts >= 3 and pendingItems = the number with attempts < 3.
StatsReturn(c) ==
    Returns(c, "getSyncStats") =>
        /\ result'[c].failedItems =
              Cardinality({k \in 1..Len(sync_queue) : IsExhausted(sync_queue[k])})
        /\ result'[c].pendingItems =
              Cardinality({k \in 1..Len(sync_queue) : IsAttemptable(sync_queue[k])})

C6_StatsCountExhausted == [][\A c \in Clients : StatsReturn(c)]_vars

\* ---------------------------------------------------------------- C7
LocalCalls == {"saveSubmissionOffline", "updateSubmissionOffline"}

OnlyStoreErrors ==
    \A c \in Clients :
        result[c].op \in LocalCalls =>
            result[c].value \in {"none", "ok", "Database not initialized"}

ReturnsOnEnqueue(c) ==
    (pc[c].at = "addToSyncQueue" /\ pc'[c] # pc[c]) =>
        /\ pc'[c].op = "idle"
        /\ result'[c].value = "ok"

\* C7: saveSubmissionOffline and updateSubmissionOffline throw nothing but
\* the store's own error; once their two store writes are done they return
\* normally at once, offline, online or with a drain pass in progress,
\* without waiting for any transport call.
C7_LocalCallsSucceed ==
    []OnlyStoreErrors /\ [][\A c \in Clients : ReturnsOnEnqueue(c)]_vars

\* a local call has returned normally, online, while a pass is in progress
\* and an entry carries a recorded transport failure
C7_Witness ==
    \E c \in Clients :
        /\ result[c].op \in LocalCalls
        /\ result[c].value = "ok"
        /\ isOnline /\ syncInProgress
        /\ \E k \in 1..Len(sync_queue) : sync_queue[k].error = "Network error"

\* ---------------------------------------------------------------- C8
\* C8: while the connectivity monitor's latest event is offline, no periodic
\* sync timer is armed.
C8_NoTimerWhileOffline == ~isOnline => ~syncInterval

\* ---------------------------------------------------------------- C9
\* the timer fires while armed, the transport answers, SQLite answers, and
\* App.initializeApp opens the database
Fairness ==
    /\ WF_vars(TimerTick)
    /\ WF_vars(DatabaseInit)
    /\ \A p \in Passes :
          /\ WF_vars(PassItemsFetched(p))
          /\ WF_vars(PassItemSent(p))
          /\ WF_vars(PassItemRecorded(p))
          /\ WF_vars(PassSubmissionsFetched(p))
          /\ WF_vars(PassSubmissionSent(p))
          /\ WF_vars(PassSubmissionRecorded(p))
    /\ \A c \in Clients :
          /\ WF_vars(SubmissionCreated(c))
          /\ WF_vars(SubmissionUpdated(c))
          /\ WF_vars(AddedToSyncQueue(c))
          /\ WF_vars(SyncStatsFetched(c))
          /\ WF_vars(FailedSyncItemsStep(c))

LiveSpec == Init /\ [][Next]_vars /\ Fairness

Attemptable(e) ==
    \E k \in 1..Len(sync_queue) :
        sync_queue[k].id = e /\ IsAttemptable(sync_queue[k])

BeingSent(e) ==
    \E p \in Passes : /\ pass[p].pc = "syncItem"
                      /\ pass[p].pendingItems[pass[p].i].id = e

\* C9: with the device online and the store initialised, every stored entry
\* with attempts < 3 is eventually sent by a pass, unless the device goes
\* offline first.
C9_EventuallySent ==
    \A e \in EntryIds :
        (Attemptable(e) /\ isOnline /\ db /\ ~BeingSent(e))
            ~> (BeingSent(e) \/ ~Attemptable(e) \/ ~isOnline)

\* ---------------------------------------------------------------- C10
AllowedSyncStatusChanges ==
    {<<"pending", "synced">>, <<"pending", "error">>,
     <<"error", "pending">>, <<"synced", "pending">>}

LocalEdit(s) ==
    \E c \in Clients : /\ pc[c].op = "updateSubmissionOffline"
                       /\ pc[c].at = "updateSubmission"
                       /\ pc[c].id = s
                       /\ pc'[c].at = "addToSyncQueue"

EngineWrite(s) ==
    \E p \in Passes :
        /\ pass[p].pc \in {"updateSubmission:synced", "updateSubmission:error"}
        /\ pass[p].submission = s
        /\ pass'[p] # pass[p]

SyncStatusStep(s) ==
    LET old == report_submissions[s].syncStatus
        new == report_submissions'[s].syncStatus
    IN  /\ old # new =>
              /\ <<old, new>> \in AllowedSyncStatusChanges
              /\ new = "pending" => LocalEdit(s)
              /\ new # "pending" => EngineWrite(s)
        /\ EngineWrite(s) => old = "pending"

\* C10: a stored submission's syncStatus changes only pending -> synced,
\* pending -> error, error -> pending or synced -> pending; it becomes
\* pending only by a local edit (updateSubmissionOffline), synced or error
\* only by the sync engine, and the engine writes only onto a pending one.
C10_SyncStatusTransitions ==
    [][\A s \in DOMAIN report_submissions :
          s \in DOMAIN report_submissions' => SyncStatusStep(s)]_vars

\* a local edit is under way on a submission the engine has marked synced
C10_Witness ==
    \E c \in Clients :
        /\ pc[c].op = "updateSubmissionOffline"
        /\ pc[c].at = "updateSubmission"
        /\ pc[c].id \in DOMAIN report_submissions
        /\ report_submissions[pc[c].id].syncStatus = "synced"


\* ---------------------------------------------------------------- C11
Decided == {"approved", "rejected"}

NoneDecided ==
    \A s \in DOMAIN report_submissions :
        report_submissions[s].status \notin Decided

StatusStep(s) ==
    LET old == report_submissions[s].status
        new == report_submissions'[s].status
    IN  new \in Decided => old \in {"submitted", new}

\* C11: no stored submission goes from draft to approved or rejected in one
\* step, and nothing the device does (saveSubmissionOffline,
\* updateSubmissionOffline, a drain pass) stores the status approved or
\* rejected.
C11_NoLocalDecision ==
    /\ []NoneDecided
    /\ [][\A s \in DOMAIN report_submissions :
            s \in DOMAIN report_submissions' => StatusStep(s)]_vars

\* an updateSubmissionOffline has returned, the submission is submitted and a
\* pass has marked it synced
C11_Witness ==
    \E c \in Clients, s \in DOMAIN report_submissions :
        /\ result[c].op = "updateSubmissionOffline"
        /\ result[c].value = "ok"
        /\ report_submissions[s].status = "submitted"
        /\ report_submissions[s].syncStatus = "synced"


\* ---------------------------------------------------------------- C12
OldestFirst(q) ==
    \A j, k \in 1..Len(q) : j < k => q[j].createdAt <= q[k].createdAt

\* the rows getPendingSyncItems hands to the pass: the entries with
\* attempts < 3, each once, oldest first
FetchedOldestFirst(p) ==
    (pass[p].pc = "getPendingSyncItems" /\ pass'[p].pc # "getPendingSyncItems") =>
        LET got == pass'[p].pendingItems IN
        /\ OldestFirst(got)
        /\ {got[k] : k \in 1..Len(got)} =
              {sync_queue[k] : k \in {j \in 1..Len(sync_queue) :
                                         sync_queue[j].attempts < MaxAttempts}}
        /\ Len(got) = Cardinality({got[k].id : k \in 1..Len(got)})

\* the transport is invoked for the rows one after the other, as fetched
SentAsFetched(p) ==
    (pass'[p].pc = "syncItem" /\ pass'[p] # pass[p]) =>
        /\ pass'[p].i = pass[p].i + 1
        /\ pass[p].pc # "getPendingSyncItems" =>
              pass'[p].pendingItems = pass[p].pendingItems
        /\ \A k \in 1..Len(pass'[p].pendingItems) :
              pass'[p].pendingItems[k].createdAt
                    < pass'[p].pendingItems[pass'[p].i].createdAt
                 => k < pass'[p].i

\* C12: getPendingSyncItems returns exactly the entries with attempts < 3 in
\* non-decreasing createdAt order, and a drain pass sends them in that order:
\* of two entries of a pass the one enqueued earlier is sent first.
C12_OldestSentFirst ==
    [][\A p \in Passes : FetchedOldestFirst(p) /\ SentAsFetched(p)]_vars

\* a pass is sending the second, younger entry of its two
C12_Witness ==
    \E p \in Passes :
        /\ pass[p].pc = "syncItem"
        /\ pass[p].i = 2
        /\ pass[p].pendingItems[1].createdAt < pass[p].pendingItems[2].createdAt


\* ---------------------------------------------------------------- C13
\* the pass has invoked the transport, or is writing what came of it
Working == {"syncItem", "removeSyncQueueItem", "updateSyncQueueItem",
            "syncSubmission", "updateSubmission:synced",
            "updateSubmission:error"}

\* the pass found no entry to send
FetchedNothing(p) ==
    /\ pass[p].pc \notin {"idle", "getPendingSyncItems"}
    /\ pass[p].pendingItems = <<>>

EmptyPassIdles == \A p \in Passes : FetchedNothing(p) => pass[p].pc \notin Working

\* what a pass leaves behind when all its transport calls succeeded and no
\* earlier failure is outstanding: entries were enqueued and all are gone,
\* and every submission of the signed-in user is synced
AfterSuccessfulPass ==
    /\ ~syncInProgress
    /\ nextEntry > 1
    /\ sync_queue = <<>>
    /\ \A s \in GetSubmissionsByUserId(CurrentUser) :
          report_submissions[s].syncStatus = "synced"

WrittenSinceFetch(s) ==
    \/ \E k \in 1..Len(sync_queue) :
          sync_queue[k].entityId = s /\ sync_queue[k].attempts = 0
    \/ \E c \in Clients : pc[c].at = "addToSyncQueue" /\ pc[c].id = s

EmptyPassWorksOnLocalWrite ==
    \A p \in Passes :
        (FetchedNothing(p) /\ pass[p].pc \in Working) =>
            /\ pass[p].pc \in {"syncSubmission", "updateSubmission:synced",
                               "updateSubmission:error"}
            /\ WrittenSinceFetch(pass[p].submission)

EmptyPassStep(p) ==
    (FetchedNothing(p) /\ pass'[p] # pass[p]) =>
        /\ sync_queue' = sync_queue
        /\ report_submissions' # report_submissions =>
              WrittenSinceFetch(pass[p].submission)

EntryOf(q, id) == q[CHOOSE k \in 1..Len(q) : q[k].id = id]

\* attempts is the number of failed transport calls for the entry (the last
\* of them counted once its updateSyncQueueItem is answered), at most 3
AttemptsCountFailures ==
    \A k \in 1..Len(sync_queue) :
        LET e == sync_queue[k] IN
        /\ e.attempts \in 0..MaxAttempts
        /\ e.attempts = hist[e.id].fails - (IF Recording(e.id) THEN 1 ELSE 0)

AttemptsStep ==
    /\ \A id \in QueueIds(sync_queue') \ QueueIds(sync_queue) :
          EntryOf(sync_queue', id).attempts = 0
    /\ \A id \in QueueIds(sync_queue') \cap QueueIds(sync_queue) :
          LET old == EntryOf(sync_queue, id).attempts
              new == EntryOf(sync_queue', id).attempts
          IN  /\ new \in {old, old + 1}
              /\ new = old + 1 => Recording(id) /\ hist[id].last = "failed"

\* C14: an entry's attempts starts at 0, never decreases, rises by exactly 1
\* for each failed transport call and by nothing else, and is never above 3.
C14_AttemptsCounted == []AttemptsCountFailures /\ [][AttemptsStep]_vars

\* during a pass, an entry that has failed lies beside one just enqueued
C14_Witness ==
    /\ syncInProgress
    /\ \E j, k \in 1..Len(sync_queue) :
          /\ sync_queue[j].attempts = 2
          /\ hist[sync_queue[j].id].fails = 2
          /\ sync_queue[k].attempts = 0
          /\ sync_queue[k].createdAt > sync_queue[j].createdAt


\* ---------------------------------------------------------------- C15
\* the pass is at the statement that follows the transport call for entry id
Settling(p, id) ==
    /\ pass[p].pc \in {"removeSyncQueueItem", "updateSyncQueueItem"}
    /\ pass[p].pendingItems[pass[p].i].id = id

\* a pass removes an entry only by the removeSyncQueueItem that follows a
\* successful transport call for it
RemovedWhenDelivered ==
    \A id \in QueueIds(sync_queue) \ QueueIds(sync_queue') :
        (\E p \in Passes : pass'[p] # pass[p]) =>
            /\ hist[id].last = "ok"
            /\ \E p \in Passes :
                  Settling(p, id) /\ pass[p].pc = "removeSyncQueueItem"

\* a failed call is written onto the entry, which stays
FailureRecorded(p) ==
    \A id \in QueueIds(sync_queue) :
        (Settling(p, id) /\ hist[id].last = "failed" /\ pass'[p] # pass[p]) =>
            /\ pass[p].pc = "updateSyncQueueItem"
            /\ id \in QueueIds(sync_queue')
            /\ LET old == EntryOf(sync_queue, id)
                   new == EntryOf(sync_queue', id)
               IN  /\ new.attempts = old.attempts + 1
                   /\ new.lastAttempt = "now"
                   /\ new.error = pass[p].error
                   /\ new.error # "none"

\* C15: a drain pass removes a queue entry only after the transport call for
\* it has succeeded; when the call fails the entry is kept, with attempts
\* one higher, lastAttempt stamped and the error message recorded.
C15_RemovedOnlyWhenDelivered ==
    [][RemovedWhenDelivered /\ \A p \in Passes : FailureRecorded(p)]_vars

\* one entry has been delivered and removed, a younger one has failed and
\* carries the record of it
C15_Witness ==
    \E k \in 1..Len(sync_queue) :
        /\ sync_queue[k].attempts = 1
        /\ sync_queue[k].lastAttempt = "now"
        /\ sync_queue[k].error = "Network error"
        /\ \E id \in 1..(nextEntry - 1) :
              id < sync_queue[k].id /\ id \notin QueueIds(sync_queue)


\* ---------------------------------------------------------------- C16
\* the UPDATE of an updateSubmission for caller c is answered in this step
UpdateAnswered(c) == pc[c].at = "updateSubmission" /\ pc'[c] # pc[c]

UpdateOutcome(c) ==
    UpdateAnswered(c) =>
        IF pc[c].id \notin DOMAIN report_submissions
        THEN \* no such submission: NotFound, nothing written or enqueued
             /\ pc'[c].op = "idle"
             /\ result'[c].value = "NotFound"
             /\ report_submissions' = report_submissions
             /\ sync_queue' = sync_queue
             /\ nextEntry' = nextEntry
        ELSE \* the supplied columns are set, the others are as they were
             LET data == UpdateData(pc[c].status)
                 old == report_submissions[pc[c].id]
                 new == report_submissions'[pc[c].id]
             IN  \A f \in DOMAIN old :
                    new[f] = IF f \in DOMAIN data THEN data[f] ELSE old[f]

\* C16: updateSubmission with an id that is not in the store fails with
\* NotFound and leaves the store unchanged; with an existing id it sets the
\* supplied columns only.
C16_UpdateOfAbsentIdFails == [][\A c \in Clients : UpdateOutcome(c)]_vars

\* ---------------------------------------------------------------- C17
\* a call made on the web, where init leaves db null, has raised
RaisedWithoutBacking(c) ==
    /\ platform = "web"
    /\ result[c].value = "Database not initialized"

\* C17: with no persistent backing (the web, where db is null after
\* initialisation) no store operation raises: the calls that reach
\* createSubmission, updateSubmission, the queries or the sync-queue
\* operations come back with an empty or absent result.
C17_NoRaiseWithoutBacking == \A c \in Clients : ~RaisedWithoutBacking(c)

\* ---------------------------------------------------------------- C19
\* the entries a step adds to the sync queue
Enqueued == {k \in 1..Len(sync_queue') :
                sync_queue'[k].id \notin QueueIds(sync_queue)}

\* the entry names a submission the store holds when the entry is added
NamesStoredEntity(k) == sync_queue'[k].entityId \in DOMAIN report_submissions'

\* C19: every sync-queue entry, whether produced by saveSubmissionOffline
\* or by updateSubmissionOffline with any submissionId argument, carries in
\* entityId the id of a submission that is in the store at the moment the
\* entry is enqueued.
C19_EntryNamesStoredEntity == [][\A k \in Enqueued : NamesStoredEntity(k)]_vars

\* ---------------------------------------------------------------- C20
\* the submissions a step inserts into the store
Inserted == DOMAIN report_submissions' \ DOMAIN report_submissions

\* C20: a submission created by saveSubmissionOffline is stored with
\* isOffline = true exactly when the connectivity monitor reports offline
\* at its creation; one created while online is stored with isOffline = false.
C20_IsOfflineMirrorsConnectivity ==
    [][\A s \in Inserted : report_submissions'[s].isOffline = ~isOnline]_vars

\* ---------------------------------------------------------------- C18
\* the step on which deleteReport returns
DeleteReportReturns == del.at = "reports" /\ del'.at = "done"

\* the submissions of the deleted report that the store holds after the step
LeftOfDeleted ==
    {s \in DOMAIN report_submissions' :
        report_submissions'[s].reportId = del.id}

\* C18: when deleteReport(R) completes the store holds no submission with
\* reportId = R, however its two DELETE statements interleave with the
\* statements of concurrent saveSubmissionOffline calls for R.
C18_NoSubmissionOfDeletedReport ==
    [][DeleteReportReturns => LeftOfDeleted = {}]_vars

\* ---------------------------------------------------------------- C21
NoSharedEmail ==
    \A j, k \in 1..Len(users) : j # k => users[j].email # users[k].email

\* the step answers the INSERT of caller a's createUser
CreateUserAnswered(a) == reg[a].at = "createUser" /\ reg'[a].at # "createUser"

\* an INSERT whose address a stored user holds is refused and adds no row
DuplicateRefused(a) ==
    (CreateUserAnswered(a) /\ reg[a].email \in EmailsOf(users)) =>
        /\ reg'[a].at = "idle"
        /\ reg'[a].out = "UNIQUE constraint failed: users.email"
        /\ users' = users

\* a register call whose address was stored when it was made
RegisterOfExisting(a) ==
    reg[a].op = "register" /\ reg[a].existed /\ reg[a].at # "idle"

\* ... creates nothing, signs nobody in, and ends by throwing
ExistingRejected(a) ==
    (RegisterOfExisting(a) /\ reg'[a] # reg[a]) =>
        /\ users' = users
        /\ auth' = auth
        /\ reg'[a].at = "idle"
        /\ reg'[a].out = "Usuário já existe com este email"

\* C21: no two stored users share an email: createUser with an email a
\* stored user holds fails with the constraint violation and adds no row,
\* and register with an existing email throws without creating a user or
\* changing the authentication state.
C21_EmailsUnique ==
    /\ []NoSharedEmail
    /\ [][\A a \in AuthCallers : DuplicateRefused(a) /\ ExistingRejected(a)]_vars

\* one register was refused at the SELECT and another, racing for the same
\* address, at the INSERT
C21_Witness ==
    \E a, b \in AuthCallers :
        /\ reg[a].at = "idle" /\ reg[a].op = "register"
        /\ reg[a].out = "UNIQUE constraint failed: users.email"
        /\ reg[b].at = "idle" /\ reg[b].op = "register" /\ reg[b].existed
        /\ reg[b].out = "Usuário já existe com este email"

\* ---------------------------------------------------------------- C22
\* the passes a step starts
Started == ActivePasses' \ ActivePasses

\* an event that takes the monitor from offline to online, the engine idle
BecameOnlineWhileIdle(isConnected) ==
    ~isOnline /\ isConnected /\ ~syncInProgress

\* an event that leaves the monitor online, or takes it offline
NoChangeToOnline(isConnected) == isOnline \/ ~isConnected

OnlineEventStartsOne(isConnected) ==
    (NetInfoEvent(isConnected) /\ BecameOnlineWhileIdle(isConnected)) =>
        Cardinality(Started) = 1

OtherEventStartsNone(isConnected) ==
    (NetInfoEvent(isConnected) /\ NoChangeToOnline(isConnected)) =>
        Started = {}

\* C22: every connectivity event that takes the monitor from offline to
\* online while the engine is idle starts exactly one drain pass; an online
\* event received while online starts none, and an offline event starts none.
C22_OnlineEventStartsOnePass ==
    [][\A isConnected \in BOOLEAN :
          /\ OnlineEventStartsOne(isConnected)
          /\ OtherEventStartsNone(isConnected)]_vars

\* ---------------------------------------------------------------- C23
\* the step calls startSync: the listener on an offline-to-online event, the
\* timer callback, forcSync
CallsStartSync ==
    \/ ~isOnline /\ NetInfoEvent(TRUE)
    \/ isOnline /\ TimerTick
    \/ isOnline /\ \E c \in Clients : ForcSync(c)

\* a startSync that passed its guard and left by the not-initialised skip
\* (lines 41-44), within the step that called it
SkippedPass == CallsStartSync /\ isOnline' /\ ~syncInProgress /\ ~db

\* a startSync that ran its pass ends in this step
CompletedPass == \E p \in Passes : PassEnds(p)

\* C23: every startSync invocation that entered the draining mode and ends
\* while the device is online leaves the 30-second timer armed, whether it
\* ends by normal completion or by the store-not-initialised skip.
C23_TimerArmedAfterPass ==
    [][((SkippedPass \/ CompletedPass) /\ isOnline') => syncInterval']_vars

\* ---------------------------------------------------------------- C24
\* pass p's UPDATE ... SET sync_status = 'synced' (line 159) is answered
WritesSynced(p) ==
    /\ PassSubmissionRecorded(p)
    /\ pass[p].pc = "updateSubmission:synced"
    /\ pass[p].submission \in DOMAIN report_submissions

\* what the pass pushed for its submission (the data it read at line 153) is
\* what the store holds once the submission is marked synced
PushedIsStored(p) ==
    LET s == pass[p].submission
    IN  report_submissions'[s].data = pass[p].read[s]

\* C24: whenever a submission is synced, the data last pushed successfully
\* for it is its stored data: a local edit that lands between the pass
\* reading the submission and the pass writing synced is not left marked
\* synced without having been pushed.
C24_SyncedMeansPushed ==
    [][\A p \in Passes : WritesSynced(p) => PushedIsStored(p)]_vars

\* ---------------------------------------------------------------- C25
\* the submissions stored before and after the step
Kept == DOMAIN report_submissions \cap DOMAIN report_submissions'

\* the step stores status draft only over status draft
DraftOnlyOverDraft(s) ==
    report_submissions'[s].status = "draft" =>
        report_submissions[s].status = "draft"

\* C25: a submission whose status is submitted never returns to draft:
\* whatever status updateSubmissionOffline is called with, draft is written
\* only while the stored status is draft.
C25_SubmittedNeverDraft == [][\A s \in Kept : DraftOnlyOverDraft(s)]_vars

\* ---------------------------------------------------------------- C26
\* two stored drafts of one user for one report
TwoDrafts ==
    \E s, t \in DOMAIN report_submissions :
        /\ s # t
        /\ report_submissions[s].reportId = report_submissions[t].reportId
        /\ report_submissions[s].userId = report_submissions[t].userId
        /\ report_submissions[s].status = "draft"
        /\ report_submissions[t].status = "draft"

\* two create entries for submissions of one user for one report
TwoCreateEntries ==
    \E j, k \in 1..Len(sync_queue) :
        /\ j # k
        /\ sync_queue[j].action = "create" /\ sync_queue[k].action = "create"
        /\ LET s == sync_queue[j].entityId
               t == sync_queue[k].entityId
           IN  /\ s \in DOMAIN report_submissions
               /\ t \in DOMAIN report_submissions
               /\ report_submissions[s].reportId = report_submissions[t].reportId
               /\ report_submissions[s].userId = report_submissions[t].userId

\* C26: the save-draft path creates a submission only when the report and
\* user have no draft yet and otherwise updates it, so overlapping autoSave
\* invocations never leave two drafts, nor two create entries, for one
\* report and user.
C26_OneDraftPerReportAndUser == ~TwoDrafts /\ ~TwoCreateEntries

\* ---------------------------------------------------------------- C27
\* a row the step inserts has version 1
CreatedWithVersionOne ==
    \A s \in Inserted : report_submissions'[s].version = 1

\* a row the step keeps has the version it had
VersionKept ==
    \A s \in Kept : report_submissions'[s].version = report_submissions[s].version

\* C27: a submission's version is 1 when saveSubmissionOffline creates it
\* and is left unchanged by every later updateSubmissionOffline and by every
\* drain pass, so that it never decreases.
C27_VersionStaysOne == [][CreatedWithVersionOne /\ VersionKept]_vars

\* a stored submission that updateSubmissionOffline has edited (its data is
\* that of a later write) and a pass has marked synced, still at version 1
C27_Witness ==
    \E c \in Clients, s \in DOMAIN report_submissions :
        /\ result[c] = Returned("updateSubmissionOffline", 0, FALSE)
        /\ report_submissions[s].data > 1
        /\ report_submissions[s].syncStatus = "synced"
        /\ report_submissions[s].version = 1

\* ---------------------------------------------------------------- C28
\* the transport call for pass p's current item succeeds in this step
Delivered(p) == pass[p].pc = "syncItem" /\ pass'[p].pc = "removeSyncQueueItem"

\* earlier in the pass's snapshot stands the create entry of the same
\* entity, and its transport call failed
CreateFailedEarlier(p) ==
    LET items == pass[p].pendingItems IN
    \E j \in 1..(pass[p].i - 1) :
        /\ items[j].action = "create"
        /\ items[j].entityId = items[pass[p].i].entityId
        /\ hist[items[j].id].last = "failed"

\* C28: the transport receives no successful update for an entity before
\* its create has succeeded: when the create entry's call fails in a pass,
\* no later-enqueued entry for the same entityId is delivered in that pass.
C28_NoUpdateBeforeCreate ==
    [][\A p \in Passes : Delivered(p) => ~CreateFailedEarlier(p)]_vars

\* ---------------------------------------------------------------- C29
\* pass p waits for the transport: makeHttpRequest has been called for a
\* queue entry (syncItem) or for a pending submission (syncSubmission)
Requesting(p) == pass[p].pc \in {"syncItem", "syncSubmission"}

\* the step in which pass p calls makeHttpRequest
Requests(p) == ~Requesting(p) /\ Requesting(p)'

\* C29: no transport call is initiated while the connectivity monitor
\* reports offline: after an offline event during a drain pass, the pass
\* issues no request for the rest of its snapshot or for pending submissions.
C29_NoRequestWhileOffline == [][\A p \in Passes : Requests(p) => isOnline]_vars

====
